---- MODULE Spec2Model ----
(***************************************************************************)
(* Model of the acquisition pipeline of BGXRipper (src/main.py):           *)
(* gather_bgx_data with its concurrent progress-bar task                   *)
(* animate_progress_bar, run on the asyncio event loop.  One action is one *)
(* step of a coroutine between two suspension points (await).  The BLE     *)
(* host stack (bleak) is the environment: every call returns one of the    *)
(* outcomes it can produce, chosen nondeterministically.                   *)
(***************************************************************************)
EXTENDS Integers, Sequences, FiniteSets, TLC

-----------------------------------------------------------------------------
(* Program constants and bounds *)

retries == 3

bar_length == 40

\* Largest scan_timeout considered, in refresh intervals of 0.1 s.
MaxDuration == 3

\* Most refresh intervals that pass while a progress task sleeps once.
MaxStep == 2

-----------------------------------------------------------------------------
(* Strings as the code handles them: sequences of characters *)

UpperCase == <<"A","B","C","D","E","F","G","H","I","J","K","L","M",
               "N","O","P","Q","R","S","T","U","V","W","X","Y","Z">>

LowerCase == <<"a","b","c","d","e","f","g","h","i","j","k","l","m",
               "n","o","p","q","r","s","t","u","v","w","x","y","z">>

\* str.lower() on one character
LowerChar(c) ==
    IF \E i \in 1..Len(UpperCase) : UpperCase[i] = c
    THEN LowerCase[CHOOSE i \in 1..Len(UpperCase) : UpperCase[i] = c]
    ELSE c

\* str.lower()
Lower(s) == [i \in 1..Len(s) |-> LowerChar(s[i])]

\* the Python test  sub in s  on strings
Contains(sub, s) ==
    \E k \in 0..(Len(s) - Len(sub)) :
        \A i \in 1..Len(sub) : s[k + i] = sub[i]

Str_bgx == <<"b","g","x">>

Str_xpress == <<"x","p","r","e","s","s">>

Str_gechoos == <<"g","e","c","h","o","o","s">>

Desc_GechoosXpress ==
    <<"G","E","C","H","O","O","S"," ","X","p","r","e","s","s"," ",
      "S","e","r","v","i","c","e">>

Desc_Battery == <<"B","a","t","t","e","r","y"," ","S","e","r","v","i","c","e">>

Desc_BGX == <<"B","G","X"," ","S","e","r","i","a","l">>

Desc_Generic == <<"G","e","n","e","r","i","c"," ","A","c","c","e","s","s">>

-----------------------------------------------------------------------------
(* Inputs of gather_bgx_data and the peripherals it may meet *)

\* service_uuid and characteristic_uuid of the configuration file
service_uuid == "S_target"

characteristic_uuid == "C_target"

Chr(u, p) == [uuid |-> u, properties |-> p]

Svc(u, d, cs) == [uuid |-> u, description |-> d, characteristics |-> cs]

\* one relevant service, two readable characteristics, the first the target
Gatt_E2E ==
    << Svc("S_1", Desc_GechoosXpress,
           << Chr("C_target", {"read"}), Chr("C_2", {"read", "write"}) >>) >>

\* a service to discard, then a relevant one with a write-only characteristic
Gatt_Mixed ==
    << Svc("S_2", Desc_Battery, << Chr("C_3", {"read"}) >>),
       Svc("S_1", Desc_GechoosXpress,
           << Chr("C_4", {"write"}), Chr("C_2", {"read", "notify"}),
              Chr("C_target", {"read", "write"}) >>) >>

\* the configured service under a plain description, then a "BGX" one
Gatt_ByUuid ==
    << Svc("S_target", Desc_Battery, << Chr("C_3", {"read"}) >>),
       Svc("S_3", Desc_BGX,
           << Chr("C_2", {"read"}), Chr("C_5", {"notify"}) >>),
       Svc("S_4", Desc_Generic, << >>) >>

\* two relevant services, the first without any readable characteristic
Gatt_Two ==
    << Svc("S_3", Desc_BGX, << Chr("C_5", {"write-without-response"}) >>),
       Svc("S_1", Desc_GechoosXpress,
           << Chr("C_2", {"read"}), Chr("C_3", {"read"}) >>) >>

Peripherals == {Gatt_E2E, Gatt_Mixed, Gatt_ByUuid, Gatt_Two}

-----------------------------------------------------------------------------
VARIABLES
    verbose,            \* argument verbose
    scan_timeout,       \* argument scan_timeout, in refresh intervals
    gatt,               \* the services the peripheral exposes
    pc,                 \* where gather_bgx_data is suspended
    attempt,            \* loop variable of the retry loop (0-based)
    device,             \* local device: 0 is None, n the result of scan n
    tasks,              \* the progress tasks created so far
    progress_task,      \* local progress_task: 0 is unbound, n is tasks[n]
    session,            \* "none", "open", "closed"
    services,           \* local services
    relevant_services,  \* local relevant_services
    cur,                \* position of the harvest loops <<service, characteristic>>
    trace,              \* history: host-stack calls, sleeps, printed lines
    outcome,            \* how the run ended
    run,                \* 1 for the first run, 2 for the repeated one
    prev,               \* host-stack calls of the first run
    prevOutcome         \* outcome of the first run

vars == <<verbose, scan_timeout, gatt, pc, attempt, device, tasks,
          progress_task, session, services, relevant_services, cur, trace,
          outcome, run, prev, prevOutcome>>

pairVars == <<run, prev, prevOutcome>>

inputVars == <<verbose, scan_timeout, gatt>>

-----------------------------------------------------------------------------
(* History *)

Ev(e, a, r, n) == [ev |-> e, a |-> a, r |-> r, n |-> n]

HostOpNames == {"scan", "connect", "is_connected", "get_services", "read"}

IsHostOp(e) == e.ev \in HostOpNames

HostOps(t) == SelectSeq(t, IsHostOp)

Printed(kind, what, n) == Ev("print", kind, what, n)

\* a call of the host stack is made; the event named op records its return
Call(op, what) == Ev("call", op, what, 0)

\* The outcomes a host-stack call may have: those of the call itself, or,
\* when a run is repeated, the outcome the same call had in the first run.
Outcomes(op, S) ==
    LET k == Len(HostOps(trace)) + 1
    IN  IF run = 2 /\ k <= Len(prev) /\ prev[k].ev = op
        THEN {prev[k].r}
        ELSE S

-----------------------------------------------------------------------------
(* animate_progress_bar: the progress task *)

\* a task as asyncio.create_task leaves it: scheduled, not yet started
NewTask == [st |-> "pending", cancel |-> FALSE, elapsed |-> 0,
            filled |-> 0, pct |-> 0]

Alive(t) == t.st \in {"pending", "sleeping"}

Min(a, b) == IF a < b THEN a ELSE b

\* the fill computed without min(..., 1.0)
FilledLengthUnclamped(elapsed, duration) ==
    (bar_length * elapsed) \div duration

\* filled_length = int(bar_length * min(elapsed_time / duration, 1.0))
FilledLength(elapsed, duration) ==
    (bar_length * Min(elapsed, duration)) \div duration

\* int(progress * 100)
Percent(elapsed, duration) == (100 * Min(elapsed, duration)) \div duration

\* One pass of the while loop with elapsed_time = e.
Refresh(t, e) ==
    [t EXCEPT !.elapsed = e,
              !.filled = FilledLength(e, scan_timeout),
              !.pct = Percent(e, scan_timeout),
              !.st = IF e >= scan_timeout THEN "done" ELSE "sleeping"]

\* The event loop runs a task only while gather_bgx_data is suspended.
Suspended == pc \notin {"start", "done", "crashed", "exited"}

\* First step of the task: the first pass of the loop, up to the sleep.
ProgressStart(i) ==
    /\ Suspended
    /\ tasks[i].st = "pending" /\ ~tasks[i].cancel
    /\ tasks' = [tasks EXCEPT ![i] = Refresh(@, 0)]
    /\ UNCHANGED <<verbose, scan_timeout, gatt, pc, attempt, device,
                   progress_task, session, services, relevant_services,
                   cur, trace, outcome, run, prev, prevOutcome>>

\* asyncio.sleep(0.1) returns: the next pass of the loop.
ProgressTick(i) ==
    /\ Suspended
    /\ tasks[i].st = "sleeping" /\ ~tasks[i].cancel
    /\ \E d \in 1..MaxStep :
          tasks' = [tasks EXCEPT ![i] = Refresh(@, @.elapsed + d)]
    /\ UNCHANGED <<verbose, scan_timeout, gatt, pc, attempt, device,
                   progress_task, session, services, relevant_services,
                   cur, trace, outcome, run, prev, prevOutcome>>

\* CancelledError is thrown into the task at its suspension point; the
\* coroutine has no handler for it and ends.
ProgressCancelled(i) ==
    /\ Suspended
    /\ Alive(tasks[i]) /\ tasks[i].cancel
    /\ tasks' = [tasks EXCEPT ![i] = [NewTask EXCEPT !.st = "cancelled"]]
    /\ UNCHANGED <<verbose, scan_timeout, gatt, pc, attempt, device,
                   progress_task, session, services, relevant_services,
                   cur, trace, outcome, run, prev, prevOutcome>>

\* Task.cancel(): a request, honoured when the task next runs.
Cancel(t) == IF Alive(t) THEN [t EXCEPT !.cancel = TRUE] ELSE t

\* asyncio.run cancels the tasks still alive when the main coroutine ends.
RunnerCleanup ==
    /\ pc \in {"done", "crashed", "exited"}
    /\ \E i \in 1..Len(tasks) : Alive(tasks[i])
    /\ tasks' = [i \in 1..Len(tasks) |->
                    IF Alive(tasks[i])
                    THEN [NewTask EXCEPT !.st = "cancelled"]
                    ELSE tasks[i]]
    /\ UNCHANGED <<verbose, scan_timeout, gatt, pc, attempt, device,
                   progress_task, session, services, relevant_services,
                   cur, trace, outcome, run, prev, prevOutcome>>

-----------------------------------------------------------------------------
(* gather_bgx_data: the retry loop *)

Init ==
    /\ verbose \in BOOLEAN
    /\ scan_timeout \in 1..MaxDuration
    /\ gatt \in Peripherals
    /\ pc = "start"
    /\ attempt = 0
    /\ device = 0
    /\ tasks = << >>
    /\ progress_task = 0
    /\ session = "none"
    /\ services = << >>
    /\ relevant_services = << >>
    /\ cur = <<0, 0>>
    /\ trace = << >>
    /\ outcome = ""
    /\ run = 1
    /\ prev = << >>
    /\ prevOutcome = ""

ScanCount(t) == Len(SelectSeq(t, LAMBDA e : e.ev = "scan"))

\* An exception leaves gather_bgx_data.
Escapes(exc, t) ==
    /\ pc' = "crashed"
    /\ outcome' = "Unhandled"
    /\ trace' = Append(t, Ev("raise", exc, "", 0))

\* Top of the loop body for attempt a, up to the first scan.
EnterAttempt(a, t) ==
    /\ attempt' = a
    /\ pc' = "scan1"
    /\ IF verbose
       THEN /\ trace' = t \o << Printed("attempt", "", a + 1),
                                 Call("scan", "device_address") >>
            /\ tasks' = Append(tasks, NewTask)
            /\ progress_task' = Len(tasks) + 1
       ELSE /\ trace' = Append(t, Call("scan", "device_address"))
            /\ UNCHANGED <<tasks, progress_task>>

\* retries = 3, device = None, first pass of the loop
Start ==
    /\ pc = "start"
    /\ device' = 0
    /\ EnterAttempt(0, trace)
    /\ UNCHANGED <<verbose, scan_timeout, gatt, session, services,
                   relevant_services, cur, outcome, run, prev, prevOutcome>>

\* what scan n returns: a device, named by n, or None
Result(r, n) == IF r = "found" THEN n ELSE 0

\* a test that lets None pass for a device
TruthyAlways(d) == TRUE

\* the test  if device  on a device or None
Truthy(d) == d # 0

ScanOutcomes == {"none", "found", "timeout", "error"}

FaultName(r) == IF r = "timeout" THEN "TimeoutError" ELSE "BleakError"

\* The first find_device_by_address of the attempt returns; the progress
\* task is cancelled and awaited.
ScanReturns1 ==
    /\ pc = "scan1"
    /\ \E r \in Outcomes("scan", ScanOutcomes) :
        LET n == ScanCount(trace) + 1
            t1 == Append(trace, Ev("scan", "device_address", r, n))
        IN  IF r \in {"timeout", "error"}
            THEN /\ Escapes(FaultName(r), t1)
                 /\ UNCHANGED <<device, tasks>>
            ELSE /\ device' = Result(r, n)
                 /\ IF progress_task = 0
                    THEN /\ Escapes("UnboundLocalError", t1)
                         /\ UNCHANGED tasks
                    ELSE /\ tasks' = [tasks EXCEPT ![progress_task] = Cancel(@)]
                         /\ pc' = "join"
                         /\ trace' = t1
                         /\ UNCHANGED outcome
    /\ UNCHANGED <<verbose, scan_timeout, gatt, attempt, progress_task,
                   session, services, relevant_services, cur, run, prev,
                   prevOutcome>>

\* gather_bgx_data going on without waiting for the task to end
JoinableAlways(t) == TRUE

\* await progress_task can return once the task has ended
Joinable(t) == ~Alive(t)

\* await progress_task returns or raises CancelledError, which is passed
\* over; the second find_device_by_address is called.  Of the awaited task
\* only the way it ended is kept: its coroutine and its locals are gone.
Join ==
    /\ pc = "join"
    /\ Joinable(tasks[progress_task])
    /\ pc' = "scan2"
    /\ tasks' = [tasks EXCEPT ![progress_task] =
                    [NewTask EXCEPT !.st = tasks[progress_task].st,
                                    !.cancel = tasks[progress_task].cancel]]
    /\ trace' = Append(trace, Call("scan", "device_address"))
    /\ UNCHANGED <<verbose, scan_timeout, gatt, attempt, device,
                   progress_task, session, services, relevant_services,
                   cur, outcome, run, prev, prevOutcome>>

\* The second find_device_by_address of the attempt returns.
ScanReturns2 ==
    /\ pc = "scan2"
    /\ \E r \in Outcomes("scan", ScanOutcomes) :
        LET n == ScanCount(trace) + 1
            t1 == Append(trace, Ev("scan", "device_address", r, n))
        IN  IF r \in {"timeout", "error"}
            THEN /\ Escapes(FaultName(r), t1)
                 /\ UNCHANGED device
            ELSE IF Truthy(Result(r, n))
            THEN /\ device' = Result(r, n)
                 /\ pc' = "connect"
                 /\ trace' = Append(t1, Call("connect", "device"))
                 /\ UNCHANGED outcome
            ELSE /\ device' = Result(r, n)
                 /\ pc' = "retry_sleep"
                 /\ trace' = t1 \o << Printed("retry", "", attempt + 1),
                                      Ev("sleep", "retry_delay", "", 0) >>
                 /\ UNCHANGED outcome
    /\ UNCHANGED <<verbose, scan_timeout, gatt, attempt, tasks,
                   progress_task, session, services, relevant_services,
                   cur, run, prev, prevOutcome>>

\* a loop that never runs out of attempts
InRangeAlways(a) == TRUE

\* attempt a is one of range(retries)
InRange(a) == a < retries

\* asyncio.sleep(retry_delay) returns: next pass of the loop, or the end
\* of the loop with no device.
RetrySleepReturns ==
    /\ pc = "retry_sleep"
    /\ IF InRange(attempt + 1)
       THEN /\ EnterAttempt(attempt + 1, trace)
            /\ UNCHANGED outcome
       ELSE /\ IF Truthy(device)
               THEN /\ pc' = "connect"
                    /\ trace' = Append(trace, Call("connect", "device"))
                    /\ UNCHANGED outcome
               ELSE /\ pc' = "done"
                    /\ outcome' = "DeviceNotFound"
                    /\ trace' = Append(trace, Printed("notfound", "", 0))
            /\ UNCHANGED <<attempt, tasks, progress_task>>
    /\ UNCHANGED <<verbose, scan_timeout, gatt, device, session, services,
                   relevant_services, cur, run, prev, prevOutcome>>

-----------------------------------------------------------------------------
(* gather_bgx_data: the connected phase *)

\* the condition of the list comprehension that builds relevant_services
Relevant(service) ==
    \/ Contains(Str_bgx, Lower(service.description))
    \/ Contains(Str_xpress, Lower(service.description))
    \/ Contains(Str_gechoos, Lower(service.description))

\* the harvest without the test of the "read" property
ReadableAlways(characteristic) == TRUE

\* "read" in characteristic.properties
Readable(characteristic) == "read" \in characteristic.properties

\* the harvest without the second read of the target
IsTargetNever(uuid) == FALSE

\* characteristic.uuid == characteristic_uuid
IsTarget(uuid) == uuid = characteristic_uuid

\* BleakClient.__aexit__: the session is disconnected
Release(t) == Append(t, Ev("disconnect", "", "", 0))

\* a client connected without async with: nothing disconnects it
AExitLeak(s) == s

\* the session after the async with block is left
AExit(s) == IF s = "open" THEN "closed" ELSE s

EndOfHarvest(rs) == [si |-> Len(rs) + 1, ci |-> 0, lines |-> << >>]

ServiceLine(service) == Printed("service", service.uuid, 0)

\* The two nested for loops, from characteristic ci of service si on: the
\* next characteristic to read and the service lines printed on the way.
RECURSIVE NextReadable(_, _, _)
NextReadable(rs, si, ci) ==
    IF si > Len(rs) THEN EndOfHarvest(rs)
    ELSE IF ci > Len(rs[si].characteristics)
    THEN IF si + 1 > Len(rs) THEN EndOfHarvest(rs)
         ELSE LET nx == NextReadable(rs, si + 1, 1)
              IN  [nx EXCEPT !.lines = << ServiceLine(rs[si + 1]) >> \o @]
    ELSE IF Readable(rs[si].characteristics[ci])
    THEN [si |-> si, ci |-> ci, lines |-> << >>]
    ELSE NextReadable(rs, si, ci + 1)

\* entry of the outer loop
FirstReadable(rs) ==
    IF Len(rs) = 0 THEN EndOfHarvest(rs)
    ELSE LET nx == NextReadable(rs, 1, 1)
         IN  [nx EXCEPT !.lines = << ServiceLine(rs[1]) >> \o @]

\* loops that pass over the characteristic after the one just read
AfterReadSkip(rs, si, ci) == NextReadable(rs, si, ci + 2)

\* where the loops go on after the read of characteristic ci of service si
\* is over without a fault
AfterRead(rs, si, ci) == NextReadable(rs, si, ci + 1)

\* a read fault handled outside the loops: the harvest ends
AfterFaultAbort(rs, si, ci) == EndOfHarvest(rs)

\* an except clause that sends the loops back to the same characteristic
AfterFaultRetry(rs, si, ci) == NextReadable(rs, si, ci)

\* where the loops go on after an except clause has handled a read fault
AfterFault(rs, si, ci) == NextReadable(rs, si, ci + 1)

\* The loops go on to position nx: the throttle sleep of the next read, or
\* the end of the async with block.
GoOn(rs, nx, t) ==
    IF nx.si > Len(rs)
    THEN /\ pc' = "done"
         /\ outcome' = "Completed"
         /\ session' = AExit(session)
         /\ trace' = Release(t \o nx.lines)
         /\ cur' = <<nx.si, nx.ci>>
    ELSE /\ pc' = "throttle"
         /\ cur' = <<nx.si, nx.ci>>
         /\ trace' = (t \o nx.lines) \o << Ev("sleep", "throttle", "", 0) >>
         /\ UNCHANGED <<outcome, session>>

\* A BleakError inside the async with block: the session is released and
\* the handler of line 68 prints the failure.
Failure(t) ==
    /\ pc' = "done"
    /\ outcome' = "ConnectionFailure"
    /\ trace' = Append(t, Printed("connfail", "", 0))

CallOutcomes == {"ok", "timeout", "error"}

\* BleakClient.__aenter__ returns or raises.
ConnectReturns ==
    /\ pc = "connect"
    /\ \E r \in Outcomes("connect", CallOutcomes) :
        LET t1 == Append(trace, Ev("connect", "device", r, device))
        IN  CASE r = "ok" ->
                    /\ session' = "open"
                    /\ pc' = "is_connected"
                    /\ trace' = Append(t1, Call("is_connected", ""))
                    /\ UNCHANGED outcome
              [] r = "error" ->
                    /\ Failure(t1)
                    /\ UNCHANGED session
              [] r = "timeout" ->
                    /\ Escapes(FaultName(r), t1)
                    /\ UNCHANGED session
    /\ UNCHANGED <<verbose, scan_timeout, gatt, attempt, device, tasks,
                   progress_task, services, relevant_services, cur, run,
                   prev, prevOutcome>>

\* client.is_connected() returns or raises.
IsConnectedReturns ==
    /\ pc = "is_connected"
    /\ \E r \in Outcomes("is_connected", {"True", "False", "timeout", "error"}) :
        LET t1 == Append(trace, Ev("is_connected", "", r, 0))
        IN  CASE r \in {"True", "False"} ->
                    /\ pc' = "get_services"
                    /\ trace' = Append(IF verbose
                                       THEN Append(t1, Printed("connected", r, 0))
                                       ELSE t1,
                                       Call("get_services", ""))
                    /\ UNCHANGED <<outcome, session>>
              [] r = "error" ->
                    /\ session' = AExit(session)
                    /\ Failure(Release(t1))
              [] r = "timeout" ->
                    /\ session' = AExit(session)
                    /\ Escapes(FaultName(r), Release(t1))
    /\ UNCHANGED <<verbose, scan_timeout, gatt, attempt, device, tasks,
                   progress_task, services, relevant_services, cur, run,
                   prev, prevOutcome>>

\* client.get_services() returns or raises; the services are filtered and
\* the loops are entered.
GetServicesReturns ==
    /\ pc = "get_services"
    /\ \E r \in Outcomes("get_services", CallOutcomes) :
        LET t1 == Append(trace, Ev("get_services", "", r, 0))
        IN  CASE r = "ok" ->
                    LET rs == SelectSeq(gatt, Relevant)
                    IN  /\ services' = gatt
                        /\ relevant_services' = rs
                        /\ GoOn(rs, FirstReadable(rs), t1)
              [] r = "error" ->
                    /\ session' = AExit(session)
                    /\ Failure(Release(t1))
                    /\ UNCHANGED <<services, relevant_services, cur>>
              [] r = "timeout" ->
                    /\ session' = AExit(session)
                    /\ Escapes(FaultName(r), Release(t1))
                    /\ UNCHANGED <<services, relevant_services, cur>>
    /\ UNCHANGED <<verbose, scan_timeout, gatt, attempt, device, tasks,
                   progress_task, run, prev, prevOutcome>>

\* asyncio.sleep(1) returns; read_gatt_char is called.
CurUuid == relevant_services[cur[1]].characteristics[cur[2]].uuid

ThrottleReturns ==
    /\ pc = "throttle"
    /\ pc' = "read1"
    /\ trace' = Append(trace, Call("read", CurUuid))
    /\ UNCHANGED <<verbose, scan_timeout, gatt, attempt, device, tasks,
                   progress_task, session, services, relevant_services,
                   cur, outcome, run, prev, prevOutcome>>

\* the line an except clause prints
FaultNotice(r, uuid) ==
    IF r = "timeout" THEN Printed("timeout", uuid, 0)
    ELSE Printed("fault", uuid, 0)

\* The read of line 59 returns or raises.
ReadReturns1 ==
    /\ pc = "read1"
    /\ \E r \in Outcomes("read", CallOutcomes) :
        LET t1 == Append(trace, Ev("read", CurUuid, r, 1))
            rs == relevant_services
        IN  IF r = "ok"
            THEN LET t2 == Append(t1, Printed("value", CurUuid, 0))
                 IN  IF IsTarget(CurUuid)
                     THEN /\ pc' = "read2"
                          /\ trace' = Append(t2, Call("read", CurUuid))
                          /\ UNCHANGED <<cur, outcome, session>>
                     ELSE GoOn(rs, AfterRead(rs, cur[1], cur[2]), t2)
            ELSE GoOn(rs, AfterFault(rs, cur[1], cur[2]),
                      Append(t1, FaultNotice(r, CurUuid)))
    /\ UNCHANGED <<verbose, scan_timeout, gatt, attempt, device, tasks,
                   progress_task, services, relevant_services, run, prev,
                   prevOutcome>>

\* The read of line 62 returns or raises.
ReadReturns2 ==
    /\ pc = "read2"
    /\ \E r \in Outcomes("read", CallOutcomes) :
        LET t1 == Append(trace, Ev("read", CurUuid, r, 2))
            rs == relevant_services
        IN  IF r = "ok"
            THEN GoOn(rs, AfterRead(rs, cur[1], cur[2]),
                      Append(t1, Printed("onboard", CurUuid, 0)))
            ELSE GoOn(rs, AfterFault(rs, cur[1], cur[2]),
                      Append(t1, FaultNotice(r, CurUuid)))
    /\ UNCHANGED <<verbose, scan_timeout, gatt, attempt, device, tasks,
                   progress_task, services, relevant_services, run, prev,
                   prevOutcome>>

-----------------------------------------------------------------------------
(* signal_handler: the user interrupts the run *)

\* SIGINT arrives while gather_bgx_data is suspended: signal_handler prints
\* its notice and raises SystemExit, which stops the event loop;
\* asyncio.run then cancels gather_bgx_data at its await, and an open
\* async with block is left through __aexit__.
Interrupt ==
    /\ Suspended
    /\ pc' = "exited"
    /\ outcome' = "Interrupted"
    /\ session' = AExit(session)
    /\ trace' = LET t1 == Append(trace, Printed("interrupted", "", 0))
                IN  IF session = "open" THEN Release(t1) ELSE t1
    /\ UNCHANGED <<verbose, scan_timeout, gatt, attempt, device, tasks,
                   progress_task, services, relevant_services, cur, run,
                   prev, prevOutcome>>

-----------------------------------------------------------------------------
(* Specifications *)

\* gather_bgx_data has returned or raised
Terminal == pc \in {"done", "crashed"}

\* the run is over, by itself or by an interruption
Ended == Terminal \/ pc = "exited"

ProgressStarts == \E i \in 1..Len(tasks) : ProgressStart(i)

ProgressTicks == \E i \in 1..Len(tasks) : ProgressTick(i)

ProgressIsCancelled == \E i \in 1..Len(tasks) : ProgressCancelled(i)

Next ==
    \/ Start
    \/ ScanReturns1
    \/ Join
    \/ ScanReturns2
    \/ RetrySleepReturns
    \/ ConnectReturns
    \/ IsConnectedReturns
    \/ GetServicesReturns
    \/ ThrottleReturns
    \/ ReadReturns1
    \/ ReadReturns2
    \/ ProgressStarts
    \/ ProgressTicks
    \/ ProgressIsCancelled
    \/ RunnerCleanup
    \/ Interrupt

Spec == Init /\ [][Next]_vars

\* one step of gather_bgx_data: the call or sleep it awaits returns or
\* raises
MainStep ==
    \/ Start
    \/ ScanReturns1
    \/ Join
    \/ ScanReturns2
    \/ RetrySleepReturns
    \/ ConnectReturns
    \/ IsConnectedReturns
    \/ GetServicesReturns
    \/ ThrottleReturns
    \/ ReadReturns1
    \/ ReadReturns2

\* one step of a progress task
TaskStep == ProgressStarts \/ ProgressTicks \/ ProgressIsCancelled

\* Every awaited call and sleep returns or raises in the end, and the event
\* loop runs every task that is ready.
FairSpec == Spec /\ WF_vars(MainStep) /\ WF_vars(TaskStep)

\* The program is run again on the same peripheral with the other setting
\* of --verbose; the host stack answers each call as it did the first time.
Rerun ==
    /\ run = 1
    /\ Terminal
    /\ \A i \in 1..Len(tasks) : ~Alive(tasks[i])
    /\ run' = 2
    /\ prev' = HostOps(trace)
    /\ prevOutcome' = outcome
    /\ verbose' = ~verbose
    /\ pc' = "start"
    /\ attempt' = 0
    /\ device' = 0
    /\ tasks' = << >>
    /\ progress_task' = 0
    /\ session' = "none"
    /\ services' = << >>
    /\ relevant_services' = << >>
    /\ cur' = <<0, 0>>
    /\ trace' = << >>
    /\ outcome' = ""
    /\ UNCHANGED <<scan_timeout, gatt>>

NextPair == Next \/ Rerun

SpecPair == Init /\ [][NextPair]_vars

-----------------------------------------------------------------------------
(* Reading the history *)

Indices(t, P(_)) == {i \in 1..Len(t) : P(t[i])}

IsScan(e) == e.ev = "scan"

IsRead(e) == e.ev = "read"

IsRetrySleep(e) == e.ev = "sleep" /\ e.a = "retry_delay"

Called(op) == \E i \in 1..Len(trace) : trace[i].ev = op

\* the lines of the pipeline, without the feedback only --verbose shows
IsPipelineLine(e) ==
    e.ev = "print" /\ e.a \in {"service", "value", "onboard", "timeout",
                                "fault", "retry", "notfound", "connfail"}

PipelineLines(t) ==
    LET ls == SelectSeq(t, IsPipelineLine)
    IN  [i \in 1..Len(ls) |-> <<ls[i].a, ls[i].r>>]

\* the lines printed about one characteristic
LinesAbout(uuid) ==
    LET ls == SelectSeq(trace, LAMBDA e : e.ev = "print" /\ e.r = uuid
                                        /\ e.a \notin {"service"})
    IN  [i \in 1..Len(ls) |-> ls[i].a]

ReadsOf(uuid) == SelectSeq(trace, LAMBDA e : e.ev = "read" /\ e.a = uuid)

AllScansEmpty == \A i \in Indices(trace, IsScan) : trace[i].r = "none"

-----------------------------------------------------------------------------
(* The Device Locator *)

\* C1: in a run where every scan finds no device, the Locator makes exactly
\* 3 attempts, the run ends with the DeviceNotFound message, and connect,
\* get_services and read_gatt_char are never called.
C1_Exhaustion ==
    (Terminal /\ AllScansEmpty) =>
        /\ attempt + 1 = retries
        /\ outcome = "DeviceNotFound"
        /\ trace[Len(trace)] = Printed("notfound", "", 0)
        /\ ~Called("connect") /\ ~Called("get_services") /\ ~Called("read")

\* C2: when all 3 attempts find no device, the Locator sleeps for
\* retry_delay exactly twice, between the attempts, and not after the last
\* attempt, before it reports DeviceNotFound.
C2_RetryDelayPlacement ==
    (outcome = "DeviceNotFound") =>
        /\ Cardinality(Indices(trace, IsRetrySleep)) = retries - 1
        /\ \A i \in Indices(trace, IsRetrySleep) :
              \E j \in Indices(trace, IsScan) : j > i

\* C3: once a scan has returned a device, no further scan is made, and the
\* device handed to connect is the one that scan returned.
C3_EarlyReturn ==
    \A i \in Indices(trace, IsScan) :
        trace[i].r = "found" =>
            /\ \A j \in Indices(trace, IsScan) : j <= i
            /\ \A j \in 1..Len(trace) :
                  trace[j].ev = "connect" => trace[j].n = trace[i].n

-----------------------------------------------------------------------------
(* The progress task *)

AliveTasks == {i \in 1..Len(tasks) : Alive(tasks[i])}

\* C4: at most one progress task is alive; the only task that can be alive
\* is the one of the current attempt, while its scan is awaited or while it
\* is being awaited itself; none is alive when the Locator looks at the
\* result of the attempt, sleeps before a retry or has returned, and none
\* once connect has been called.
C4_ReporterJoined ==
    /\ Cardinality(AliveTasks) <= 1
    /\ \A i \in AliveTasks : i = progress_task
    /\ pc \in {"scan2", "retry_sleep", "connect", "is_connected",
               "get_services", "throttle", "read1", "read2", "done"}
          => AliveTasks = {}
    /\ Called("connect") => AliveTasks = {}

\* a verbose run in its second attempt: the task of the first attempt is
\* gone, the task of the second was cancelled while it slept and has ended
C4_Witness ==
    /\ verbose
    /\ pc = "scan2"
    /\ attempt = 1
    /\ Len(tasks) = 2
    /\ tasks[2].st = "cancelled"
    /\ tasks[1].st \in {"done", "cancelled"}

-----------------------------------------------------------------------------
(* Verbosity *)

\* C5: a run with verbose off and a run with verbose on, given the same
\* answers by the host stack, make the same host-stack calls and end the
\* same way.
C5_VerbosityIrrelevant ==
    (run = 2 /\ Terminal) =>
        /\ HostOps(trace) = prev
        /\ outcome = prevOutcome

-----------------------------------------------------------------------------
(* The Topology Enumerator and the Harvester *)

VendorNames == {Str_bgx, Str_xpress, Str_gechoos}

\* relevance as section 4.4 of the design states it
StatedRelevant(service) ==
    \/ service.uuid = service_uuid
    \/ \E w \in VendorNames : Contains(w, Lower(service.description))

ServicePrinted(service) ==
    \E i \in 1..Len(trace) : trace[i] = ServiceLine(service)

\* C6: a service the host stack reports is printed and harvested if and
\* only if its UUID is service_uuid or its lower-cased description contains
\* "bgx", "xpress" or "gechoos".
C6_RelevanceFilter ==
    (outcome = "Completed") =>
        \A i \in 1..Len(gatt) :
            ServicePrinted(gatt[i]) <=> StatedRelevant(gatt[i])

\* the characteristics of the peripheral, each with its service
Characteristics ==
    UNION {{<<i, j>> : j \in 1..Len(gatt[i].characteristics)} :
              i \in 1..Len(gatt)}

Chara(p) == gatt[p[1]].characteristics[p[2]]

HasRead(p) == "read" \in Chara(p).properties

\* the service passed the filter and its line was printed before event k
YieldedBefore(i, k) ==
    /\ StatedRelevant(gatt[i])
    /\ \E m \in 1..(k - 1) : trace[m] = ServiceLine(gatt[i])

\* C7: read_gatt_char is called only for characteristics that have the
\* "read" property and belong to a service that passed the filter; a
\* characteristic without "read", or of a discarded service, is never read.
C7_ReadGate ==
    /\ \A k \in Indices(trace, IsRead) :
          \E p \in Characteristics :
              /\ Chara(p).uuid = trace[k].a
              /\ HasRead(p)
              /\ YieldedBefore(p[1], k)
    /\ \A p \in Characteristics :
          (~HasRead(p) \/ ~ServicePrinted(gatt[p[1]]))
              => Len(ReadsOf(Chara(p).uuid)) = 0

\* the harvest of a peripheral with a discarded service and a write-only
\* characteristic is over: the readable ones of the relevant service were
\* read, the others were not
C7_Witness ==
    /\ outcome = "Completed"
    /\ gatt = Gatt_Mixed
    /\ Len(ReadsOf("C_2")) = 1
    /\ Len(ReadsOf("C_target")) >= 1
    /\ Len(ReadsOf("C_4")) = 0
    /\ Len(ReadsOf("C_3")) = 0

ReadFaults == {k \in Indices(trace, IsRead) : trace[k].r # "ok"}

\* C8: a read that raises a timeout or a BleakError is followed by a notice
\* naming the characteristic, never ends the run, and when the harvest is
\* over every readable characteristic of every relevant service has been
\* sent a read, whatever reads failed.
C8_FaultIsolation ==
    /\ \A k \in ReadFaults :
          /\ k < Len(trace)
          /\ trace[k + 1] = FaultNotice(trace[k].r, trace[k].a)
    /\ ReadFaults # {} => pc # "crashed"
    /\ (outcome = "Completed") =>
          \A i \in 1..Len(relevant_services) :
              \A j \in 1..Len(relevant_services[i].characteristics) :
                  LET c == relevant_services[i].characteristics[j]
                  IN  "read" \in c.properties => Len(ReadsOf(c.uuid)) >= 1

\* the first read of a service timed out, the read of the next
\* characteristic of the same service was made and succeeded
C8_Witness ==
    /\ outcome = "Completed"
    /\ gatt = Gatt_Two
    /\ \E k \in ReadFaults :
          /\ trace[k].a = "C_2" /\ trace[k].r = "timeout"
          /\ \E m \in Indices(trace, IsRead) :
                m > k /\ trace[m].a = "C_3" /\ trace[m].r = "ok"

ReadablePrinted ==
    {p \in Characteristics : HasRead(p) /\ ServicePrinted(gatt[p[1]])}

FirstReadOk(uuid) == Len(ReadsOf(uuid)) >= 1 /\ ReadsOf(uuid)[1].r = "ok"

\* C9 as stated: when the first read of the target characteristic succeeds
\* it is read a second time, so it has exactly two reads and two printed
\* lines, the value line and then the "Onboard Storage Data" line; any
\* other characteristic has no second read and no such line.
C9_TargetDoubleRead ==
    (outcome = "Completed") =>
        \A p \in ReadablePrinted :
            LET u == Chara(p).uuid
            IN  IF u = characteristic_uuid
                THEN FirstReadOk(u) =>
                        /\ Len(ReadsOf(u)) = 2
                        /\ LinesAbout(u) = <<"value", "onboard">>
                ELSE /\ Len(ReadsOf(u)) <= 1
                     /\ \A i \in 1..Len(LinesAbout(u)) :
                           LinesAbout(u)[i] # "onboard"

\* C9 amended: when the first read of the target characteristic succeeds
\* it is read a second time, so it has exactly two reads; the value line is
\* printed, and the "Onboard Storage Data" line follows it exactly when the
\* second read succeeds too, a fault notice otherwise; any other
\* characteristic has no second read and no such line.
C9_TargetDoubleReadAmended ==
    (outcome = "Completed") =>
        \A p \in ReadablePrinted :
            LET u == Chara(p).uuid
            IN  IF u = characteristic_uuid
                THEN FirstReadOk(u) =>
                        /\ Len(ReadsOf(u)) = 2
                        /\ LinesAbout(u) =
                              IF ReadsOf(u)[2].r = "ok"
                              THEN <<"value", "onboard">>
                              ELSE <<"value", FaultNotice(ReadsOf(u)[2].r, u).a>>
                ELSE /\ Len(ReadsOf(u)) <= 1
                     /\ \A i \in 1..Len(LinesAbout(u)) :
                           LinesAbout(u)[i] # "onboard"

\* both reads of the target succeeded and the other readable
\* characteristic of the service was read once
C9_Witness ==
    /\ outcome = "Completed"
    /\ gatt = Gatt_Mixed
    /\ Len(ReadsOf("C_target")) = 2
    /\ ReadsOf("C_target")[1].r = "ok" /\ ReadsOf("C_target")[2].r = "ok"
    /\ LinesAbout("C_target") = <<"value", "onboard">>
    /\ Len(ReadsOf("C_2")) = 1

\* no call of the host stack failed or found nothing
AllCallsSucceed ==
    \A i \in 1..Len(trace) :
        IsHostOp(trace[i]) => trace[i].r \in {"found", "ok", "True"}

\* C10: when the scan of attempt 1 finds the device, connect succeeds and
\* the one relevant service has two readable characteristics, the target
\* and C_2, whose reads succeed, the output is the service line, the value
\* line of the target, the onboard-storage line, the value line of C_2, and
\* neither a retry notice nor a connection-failure line.
C10_EndToEnd ==
    (Terminal /\ gatt = Gatt_E2E /\ AllCallsSucceed) =>
        PipelineLines(trace) =
            << <<"service", "S_1">>, <<"value", "C_target">>,
               <<"onboard", "C_target">>, <<"value", "C_2">> >>

-----------------------------------------------------------------------------
(* The session *)

Disconnects == Indices(trace, LAMBDA e : e.ev = "disconnect")

Opened == Indices(trace, LAMBDA e : e.ev = "connect" /\ e.r = "ok")

\* C11: once connect has opened a session, the session is released on
\* every way out of the async with block: the end of the harvest, a fault
\* of is_connected, get_services or a read, an interruption by the user at
\* any await; no ended run has an open session.
C11_SessionReleased ==
    /\ Ended => session # "open"
    /\ (Ended /\ Opened # {}) =>
          /\ session = "closed"
          /\ Cardinality(Disconnects) = 1
          /\ \A d \in Disconnects : \A o \in Opened : o < d
    /\ session = "open" => (Opened # {} /\ Disconnects = {})

\* the user interrupts a run while a read is awaited: the session that
\* was open is closed
C11_Witness ==
    /\ pc = "exited"
    /\ session = "closed"
    /\ Len(trace) >= 3
    /\ trace[Len(trace)].ev = "disconnect"
    /\ trace[Len(trace) - 1] = Printed("interrupted", "", 0)
    /\ trace[Len(trace) - 2].ev = "call" /\ trace[Len(trace) - 2].a = "read"

ConnectFaults ==
    Indices(trace, LAMBDA e : e.ev = "connect" /\ e.r \in {"timeout", "error"})

\* C12: when connect raises a timeout or a generic fault, the run ends with
\* the connection-failure line, and no scan, connect, get_services or read
\* is called afterwards.
C12_ConnectFailureFatal ==
    \A k \in ConnectFaults :
        /\ outcome = "ConnectionFailure"
        /\ k < Len(trace) /\ trace[k + 1] = Printed("connfail", "", 0)
        /\ \A j \in (k + 1)..Len(trace) : trace[j].ev # "call"

\* C13: whatever the host-stack calls return or raise, and whatever
\* verbose is, no exception leaves gather_bgx_data: the run ends with the
\* harvest completed, DeviceNotFound reported or ConnectionFailure reported.
C13_NoUnhandledFault ==
    Terminal => outcome \in {"Completed", "DeviceNotFound", "ConnectionFailure"}

ScanCalls == Indices(trace, LAMBDA e : e.ev = "call" /\ e.a = "scan")

\* C14: each attempt calls find_device_by_address exactly once, so a run
\* makes at most 3 scans, one per attempt begun.
C14_OneScanPerAttempt ==
    pc # "start" =>
        /\ Cardinality(ScanCalls) = attempt + 1
        /\ Cardinality(ScanCalls) <= retries

-----------------------------------------------------------------------------
(* Order of the host-stack calls *)

\* the calls of the host stack and their returns, in order
HostTraffic == SelectSeq(trace, LAMBDA e : e.ev = "call" \/ IsHostOp(e))

\* every call is answered before the next one is made
OneInFlight ==
    \A i \in 1..Len(HostTraffic) :
        IF i % 2 = 1
        THEN HostTraffic[i].ev = "call"
        ELSE /\ HostTraffic[i].ev = HostTraffic[i - 1].a
             /\ HostTraffic[i].ev = "read" =>
                    HostTraffic[i].a = HostTraffic[i - 1].r

\* the UUIDs read_gatt_char was called with, in order
ReadCalls ==
    LET cs == SelectSeq(trace, LAMBDA e : e.ev = "call" /\ e.a = "read")
    IN  [i \in 1..Len(cs) |-> cs[i].r]

\* s without the immediate repetitions
RECURSIVE Squeeze(_)
Squeeze(s) ==
    IF Len(s) <= 1 THEN s
    ELSE IF s[1] = s[2] THEN Squeeze(Tail(s))
    ELSE << s[1] >> \o Squeeze(Tail(s))

\* the UUIDs of the readable characteristics of the services ss, service
\* by service, in the order of the host stack
RECURSIVE Enumeration(_)
Enumeration(ss) ==
    IF ss = << >> THEN << >>
    ELSE LET cs == SelectSeq(ss[1].characteristics,
                             LAMBDA c : "read" \in c.properties)
         IN  [i \in 1..Len(cs) |-> cs[i].uuid] \o Enumeration(Tail(ss))

IsPrefix(a, b) == Len(a) <= Len(b) /\ a = SubSeq(b, 1, Len(a))

\* the UUIDs of the service lines printed, in order
ServiceLines ==
    LET ls == SelectSeq(trace, LAMBDA e : e.ev = "print" /\ e.a = "service")
    IN  [i \in 1..Len(ls) |-> ls[i].r]

PrintedServices == SelectSeq(gatt, ServicePrinted)

\* C15: host-stack calls never overlap (each of scan, connect,
\* is_connected, get_services and read returns or raises before the next
\* is called), the service lines appear in the order the host stack
\* reported the services, each before any read of the service's
\* characteristics, and the characteristics are read one after another in
\* that order, none passed over.
C15_SequentialInOrder ==
    /\ OneInFlight
    /\ ServiceLines = [i \in 1..Len(PrintedServices) |-> PrintedServices[i].uuid]
    /\ IsPrefix(Squeeze(ReadCalls), Enumeration(PrintedServices))
    /\ outcome = "Completed" =>
           Squeeze(ReadCalls) = Enumeration(PrintedServices)
    /\ \A k \in 1..Len(trace) :
           (trace[k].ev = "call" /\ trace[k].a = "read") =>
               \E p \in Characteristics :
                   /\ Chara(p).uuid = trace[k].r
                   /\ \E m \in 1..(k - 1) : trace[m] = ServiceLine(gatt[p[1]])

\* both services of the two-service peripheral printed and both
\* characteristics of the second read
C15_Witness ==
    /\ outcome = "Completed"
    /\ gatt = Gatt_Two
    /\ ServiceLines = << "S_3", "S_1" >>
    /\ ReadCalls = << "C_2", "C_3" >>

-----------------------------------------------------------------------------
(* Reads of one characteristic *)

\* the calls of read_gatt_char with this UUID
ReadCallsOf(uuid) ==
    Indices(trace, LAMBDA e : e.ev = "call" /\ e.a = "read" /\ e.r = uuid)

\* C16: after a read of a characteristic has raised a timeout or a
\* BleakError, read_gatt_char is not called for that characteristic again;
\* a readable characteristic other than the target is read at most once,
\* and exactly once when the harvest of its service has completed.
C16_NoReadRetry ==
    /\ \A k \in ReadFaults :
           \A j \in (k + 1)..Len(trace) :
               /\ ~(trace[j].ev = "call" /\ trace[j].a = "read"
                        /\ trace[j].r = trace[k].a)
               /\ ~(trace[j].ev = "read" /\ trace[j].a = trace[k].a)
    /\ \A p \in Characteristics :
           (HasRead(p) /\ Chara(p).uuid # characteristic_uuid) =>
               /\ Cardinality(ReadCallsOf(Chara(p).uuid)) <= 1
               /\ (outcome = "Completed" /\ ServicePrinted(gatt[p[1]])) =>
                      Cardinality(ReadCallsOf(Chara(p).uuid)) = 1

\* the read of C_2 raised, the harvest went on to the target and completed
C16_Witness ==
    /\ outcome = "Completed"
    /\ gatt = Gatt_Mixed
    /\ Len(ReadsOf("C_2")) = 1
    /\ ReadsOf("C_2")[1].r = "timeout"
    /\ Len(ReadsOf("C_target")) >= 1

-----------------------------------------------------------------------------
(* The throttle *)

IsReadCall(e) == e.ev = "call" /\ e.a = "read"

IsThrottle(e) == e.ev = "sleep" /\ e.a = "throttle"

\* C17: asyncio.sleep(1) comes before every call of read_gatt_char: no two
\* calls of read_gatt_char without a throttle sleep between them.
C17_ThrottleBeforeEveryRead ==
    /\ \A k \in Indices(trace, IsReadCall) :
           \E m \in 1..(k - 1) :
               /\ IsThrottle(trace[m])
               /\ \A j \in (m + 1)..(k - 1) : ~IsHostOp(trace[j])
    /\ \A i, k \in Indices(trace, IsReadCall) :
           i < k => \E m \in (i + 1)..(k - 1) : IsThrottle(trace[m])

-----------------------------------------------------------------------------
(* Sessions *)

ConnectCalls == Indices(trace, LAMBDA e : e.ev = "call" /\ e.a = "connect")

\* a call was made on the connected client
ConnectedPhase ==
    \E i \in 1..Len(trace) :
        /\ trace[i].ev = "call"
        /\ trace[i].a \in {"is_connected", "get_services", "read"}

\* C18: the client is connected at most once in a run, and only with a
\* device that a scan has found; a run that uses the connected client has
\* opened exactly one session, and never is more than one session open.
C18_SingleSession ==
    /\ Cardinality(ConnectCalls) <= 1
    /\ \A k \in ConnectCalls :
           /\ Truthy(device)
           /\ \E j \in 1..(k - 1) :
                  /\ trace[j].ev = "scan"
                  /\ trace[j].r = "found"
                  /\ trace[j].n = device
    /\ \A k \in 1..Len(trace) :
           trace[k].ev = "connect" => trace[k].n = device /\ trace[k].n # 0
    /\ Cardinality(Opened) <= 1
    /\ ConnectedPhase => Cardinality(Opened) = 1
    /\ Cardinality(Opened) - Cardinality(Disconnects) \in {0, 1}
    /\ session = "open" <=>
           Cardinality(Opened) - Cardinality(Disconnects) = 1

\* the device was found by the second attempt and the session on it is in
\* use
C18_Witness ==
    /\ attempt = 1
    /\ device = 4
    /\ session = "open"
    /\ pc = "read1"
    /\ Cardinality(ConnectCalls) = 1

-----------------------------------------------------------------------------
(* The progress bar *)

\* the step is a pass of the while loop of task t: the bar is written
Refreshed(t, t2) ==
    /\ Alive(t)
    /\ t2.st \in {"sleeping", "done"}
    /\ t.st = "pending" \/ t2.elapsed # t.elapsed

\* n is the integer part of num / den
IsFloor(n, num, den) == n * den <= num /\ num < (n + 1) * den

\* C19: at every refresh of the bar the number of filled segments is
\* floor(40 * min(elapsed / duration, 1)), so it lies in 0..40 and never
\* decreases, and the percentage lies in 0..100; the task ends by itself at
\* the first refresh at which the fraction is 1, and only then; a task
\* whose cancellation was requested refreshes no more, and a task that is
\* over stays over.
C19_ProgressBar ==
    [][\A i \in 1..Len(tasks) :
          (i <= Len(tasks') /\ tasks'[i] # tasks[i]) =>
              LET t  == tasks[i]
                  t2 == tasks'[i]
              IN  IF Refreshed(t, t2)
                  THEN /\ ~t.cancel
                       /\ t2.elapsed >= t.elapsed
                       /\ IsFloor(t2.filled,
                                  bar_length * Min(t2.elapsed, scan_timeout),
                                  scan_timeout)
                       /\ IsFloor(t2.pct,
                                  100 * Min(t2.elapsed, scan_timeout),
                                  scan_timeout)
                       /\ t2.filled \in 0..bar_length
                       /\ t2.pct \in 0..100
                       /\ t2.filled >= t.filled
                       /\ t2.pct >= t.pct
                       /\ t2.st = "done" <=> t2.elapsed >= scan_timeout
                       /\ t2.st = "done" <=> t2.filled = bar_length
                       /\ t.st = "sleeping" => t.filled < bar_length
                  ELSE /\ t.cancel => t2.st = "cancelled"
                       /\ ~Alive(t) => t2.st = t.st
                       /\ Alive(t) => (t2.st = "cancelled" \/ t2.cancel)
      ]_vars

\* a bar drawn half full, then full at a refresh that came after the
\* duration had passed
C19_Witness ==
    \E i \in 1..Len(tasks) :
        /\ scan_timeout = 2
        /\ tasks[i].st = "done"
        /\ tasks[i].elapsed = 3
        /\ tasks[i].filled = bar_length
        /\ tasks[i].pct = 100

-----------------------------------------------------------------------------
(* The second read of the target *)

\* the second reads that raised
OnboardFaults ==
    {k \in Indices(trace, IsRead) : trace[k].n = 2 /\ trace[k].r # "ok"}

\* C20: when the read of line 59 of the target succeeded and the read of
\* line 62 raises a timeout or a BleakError, the value line of the first
\* read is already printed, no onboard-storage line is printed, one notice
\* naming the characteristic is the only other line about it, and the
\* loops go on: to the throttle of the next readable characteristic, or to
\* the end of the harvest when there is none.
C20_OnboardFault ==
    \A k \in OnboardFaults :
        LET u == trace[k].a
        IN  /\ k > 3 /\ k + 1 <= Len(trace)
            /\ trace[k - 3] = Ev("read", u, "ok", 1)
            /\ trace[k - 2] = Printed("value", u, 0)
            /\ trace[k - 1] = Call("read", u)
            /\ trace[k + 1] = FaultNotice(trace[k].r, u)
            /\ LinesAbout(u) = << "value", trace[k + 1].a >>
            /\ \A j \in 1..Len(trace) : trace[j] # Printed("onboard", u, 0)
            /\ \A j \in (k + 1)..Len(trace) : trace[j].ev # "raise"
            /\ outcome \notin {"ConnectionFailure", "Unhandled"}
            /\ k + 2 <= Len(trace)
            /\ \/ IsThrottle(trace[k + 2])
               \/ trace[k + 2].ev = "disconnect"
               \/ trace[k + 2].ev = "print" /\ trace[k + 2].a = "service"
            /\ outcome = "Completed" =>
                   \A p \in ReadablePrinted : Len(ReadsOf(Chara(p).uuid)) >= 1

\* the second read of the target raised and the characteristic after it
\* was read
C20_Witness ==
    /\ outcome = "Completed"
    /\ gatt = Gatt_E2E
    /\ Len(ReadsOf("C_target")) = 2
    /\ ReadsOf("C_target")[2].r = "timeout"
    /\ Len(ReadsOf("C_2")) = 1
    /\ ReadsOf("C_2")[1].r = "ok"

-----------------------------------------------------------------------------
(* Termination *)

\* C21: when every awaited host-stack call and sleep returns or raises,
\* every run of gather_bgx_data comes to an end, whatever the scans return
\* and whichever calls fault: the retry loop makes at most 3 attempts and
\* the harvest never goes back to a characteristic it has left.
C21_Termination ==
    /\ [](attempt \in 0..(retries - 1))
    /\ [](Cardinality(Indices(trace, IsRetrySleep)) <= retries)
    /\ [](\A p \in Characteristics :
              Cardinality(ReadCallsOf(Chara(p).uuid)) <= 2)
    /\ <>Ended

\* a run that found the device at its third attempt and has read every
\* readable characteristic of the harvested service, one of them failing
C21_Witness ==
    /\ pc = "done"
    /\ outcome = "Completed"
    /\ attempt = retries - 1
    /\ gatt = Gatt_Mixed
    /\ Len(ReadsOf("C_2")) = 1
    /\ ReadsOf("C_2")[1].r = "error"
    /\ Len(ReadsOf("C_target")) = 2

=============================================================================
